---- MODULE Spec2Model ----
(***************************************************************************)
(* Model of vrep_bridge.py: the VrepBridge class (a request/reply signal   *)
(* protocol over the simulator's string streams, plus spawning and         *)
(* removing robot clones) together with the simulator it talks to.         *)
(*                                                                         *)
(* Byte strings are sequences of numbers 0..255.  Integers travel as the   *)
(* remote API packs them: 4 bytes each, little endian, two's complement.   *)
(***************************************************************************)
EXTENDS Integers, Sequences, FiniteSets, TLC

\* ---------------------------------------------------------------- bounds
MaxOps   == 3   \* bridge method calls in one run
MaxNr    == 2   \* largest nr passed to spawnRobots

\* ------------------------------------------------------ program constants
SignalType_getState         == 1
SignalType_setState         == 2
SignalType_getKnownRobotIds == 3

IndexSignalSend_type   == 0
IndexSignalSend_uid    == 1
IndexSignalSend_motion == 2
IndexSignalSend_led_r  == 3
IndexSignalSend_led_g  == 4
IndexSignalSend_led_b  == 5

IndexSignalReceive_uid           == 0
IndexSignalReceive_ambient_light == 1

SpawnType_ox_plus  == 1
SpawnType_oy_plus  == 2
SpawnType_circular == 3

simx_return_ok == 0
Delim == 124  \* the byte b'|'

\* --------------------------------------------------------- input domains
Uids        == {0, 1, 124}          \* the ids of the robots in the scene
ReqUids     == {0, 124}             \* the robots the client asks about
Lights      == {7}                  \* ambient light readings
DistBases   == {4, 122}             \* distance readings run upward from one of these
Motions     == {0, 3}               \* Motion.stop, Motion.right
Led_rgb     == {<<0, 3, 1>>}        \* Led_rgb.turquoise
SpawnTypes  == {SpawnType_ox_plus, SpawnType_oy_plus, SpawnType_circular}
ClientIds   == {-1, 0}              \* what simxStart may return
ReadResults == {simx_return_ok, 1}  \* ok, or simx_return_novalue_flag
SourceHandles == {1}                \* handle of the source robot in the scene
FirstCloneHandle == Cardinality(SourceHandles) + 1   \* first handle free for a clone
SignalOps   == {"getState", "getKnownRobotIds", "setState"}

VARIABLES
  obj,                 \* "none" | "live" | "failed" | "closed": the bridge object
  clientID,            \* self.__clientID
  clonedRobotHandles,  \* self.clonedRobotHandles
  scene,               \* simulator: handles of the clones present in the scene
  nextHandle,          \* simulator: next object handle it hands out
  simLog,              \* simulator calls issued by the latest call, when a spawn/remove
  cidUses,             \* {<<method, client id>>}: client id each method call used
  staleRemove,         \* a remove-model call was issued for a handle not in the scene
  pc,                  \* "idle" | "wait" (inside __waitForCmdReply) | "exited"
  pending,             \* [op, uid, args] of the call in progress (or of the latest call)
  signal,              \* simulator: unread content of the 'signal' stream
  sentBytes,           \* the bytes the latest call wrote to 'signal'
  replyBuf,            \* simulator: unread content of the 'reply_signal' stream
  simReply,            \* the reply the simulator published for the latest call, before encoding
  lastRead,            \* [result, string] of the latest call's latest simxReadStringStream
  polled,              \* some read of this call delivered no reply
  reply,               \* what sendSignal returned in the latest call
  outcome,             \* how the latest call ended: return / exit / raise
  logLevel,            \* level of the latest logged message
  nWritten,            \* requests written to 'signal'
  nReturned,           \* replies returned by sendSignal
  writesThisCall,      \* writes to 'signal' by the call in progress
  nOps                 \* bridge method calls so far

vars == <<obj, clientID, clonedRobotHandles, scene, nextHandle, simLog, cidUses,
          staleRemove, pc, pending, signal, sentBytes, replyBuf, simReply,
          lastRead, polled, reply, outcome, logLevel, nWritten, nReturned,
          writesThisCall, nOps>>

bridgeVars == <<obj, clientID>>
cloneVars  == <<clonedRobotHandles, scene, nextHandle, simLog, staleRemove>>

\* ------------------------------------------------------------ byte strings
Range(s) == {s[i] : i \in 1 .. Len(s)}

\* struct.pack('<i', n)
PackInt(n) ==
  << n % 256, (n \div 256) % 256, (n \div 65536) % 256, (n \div 16777216) % 256 >>

\* struct.unpack('<i', b)[0]
UnpackInt(b) ==
  b[1] + 256 * b[2] + 65536 * b[3]
       + 16777216 * (IF b[4] >= 128 THEN b[4] - 256 ELSE b[4])

\* one group of 4 bytes per int, in order
simxPackInts(ints) ==
  [k \in 1 .. (4 * Len(ints)) |-> PackInt(ints[((k - 1) \div 4) + 1])[((k - 1) % 4) + 1]]

\* one int per whole group of 4 bytes; trailing bytes are dropped
simxUnpackInts(bytes) ==
  [i \in 1 .. (Len(bytes) \div 4) |-> UnpackInt(SubSeq(bytes, 4 * i - 3, 4 * i))]

\* where the delimiter bytes are
DelimPositions(bytes) == {i \in 1 .. Len(bytes) : bytes[i] = Delim}

\* bytes.split(b'|'): the stretches between delimiters, always at least one
Split(bytes) ==
  LET D == DelimPositions(bytes)
      Nth(j) == CHOOSE p \in D : Cardinality({q \in D : q <= p}) = j
  IN [j \in 1 .. (Cardinality(D) + 1) |->
        SubSeq(bytes,
               IF j = 1 THEN 1 ELSE Nth(j - 1) + 1,
               IF j = Cardinality(D) + 1 THEN Len(bytes) ELSE Nth(j) - 1)]

\* decimal text of a non-negative int, as the simulator writes the sender's id
RECURSIVE AsciiDec(_)
AsciiDec(n) ==
  IF n < 10 THEN << 48 + n >> ELSE AsciiDec(n \div 10) \o << 48 + (n % 10) >>

IsDigits(bytes) == bytes # << >> /\ \A i \in 1 .. Len(bytes) : bytes[i] \in 48 .. 57

\* int(b) for a string of decimal digits
RECURSIVE ParseInt(_)
ParseInt(bytes) ==
  IF bytes = << >> THEN 0
  ELSE 10 * ParseInt(SubSeq(bytes, 1, Len(bytes) - 1)) + (bytes[Len(bytes)] - 48)


\* ------------------------------------------------------------- outcomes
\* How a call ended: it returned (None, a state dictionary or a list of ids),
\* the process exited with a status, or an exception was raised.
NoState == [uid |-> -1, light |-> -1, distances |-> << >>]
Outcome(kind) ==
  [kind |-> kind, status |-> 0, exc |-> "", state |-> NoState, ids |-> << >>]
NoOutcome == Outcome("none")
Return == Outcome("return")
ReturnState(st) == [Outcome("return") EXCEPT !.state = st]
ReturnIds(l) == [Outcome("return") EXCEPT !.ids = l]
Exit(status) == [Outcome("exit") EXCEPT !.status = status]
Raise(exc) == [Outcome("raise") EXCEPT !.exc = exc]

NoRead == [result |-> -1, string |-> << >>]
NoReply == [uid |-> -1, light |-> -1, keys |-> << >>, vals |-> << >>]
NoCall == [op |-> "none", uid |-> -1, args |-> << >>]

\* ---------------------------------------------------------- getClonePosRot
\* Lengths are in units of 0.0001.  A position is the planar vector vec
\* multiplied by the rotation matrix of angle (degrees, as the fraction
\* <<numerator, denominator>>), followed by z.
getClonePosRot(stepNr, nr, spawnType) ==
  IF spawnType = SpawnType_ox_plus THEN
    << [vec |-> << (stepNr + 1) * 500, 0 >>, angle |-> << 0, 1 >>, z |-> 0],
       << 0, 0, 0 >> >>
  ELSE IF spawnType = SpawnType_oy_plus THEN
    << [vec |-> << 0, (stepNr + 1) * 500 >>, angle |-> << 0, 1 >>, z |-> 0],
       << 0, 0, 0 >> >>
  ELSE IF spawnType = SpawnType_circular THEN
    << [vec |-> << 0, 61 * nr >>, angle |-> << stepNr * 360, nr >>, z |-> 0],
       << 0, 0, 0 >> >>
  ELSE
    << [vec |-> << 0, 0 >>, angle |-> << 0, 1 >>, z |-> 0], << 0, 0, 0 >> >>

\* mutant: the client id is not compared with -1
Construct_noCheck(cid) ==
  /\ obj = "none"
  /\ clientID' = cid
  /\ clonedRobotHandles' = << >>
  /\ obj' = "live"
  /\ logLevel' = "info"
  /\ outcome' = Outcome("return")
  /\ cidUses' = cidUses \cup {<< "init", -1 >>}
  /\ UNCHANGED <<scene, nextHandle, simLog, staleRemove, pc, pending,
                 signal, sentBytes, replyBuf, simReply, lastRead, polled, reply,
                 nWritten, nReturned, writesThisCall, nOps>>

\* ------------------------------------------------------------- __init__
Construct(cid) ==
  /\ obj = "none"
  /\ clientID' = cid
  /\ clonedRobotHandles' = << >>
  /\ IF cid = -1
     THEN /\ obj' = "failed"
          /\ logLevel' = "error"
          /\ outcome' = Raise("TypeError")
     ELSE /\ obj' = "live"
          /\ logLevel' = "info"
          /\ outcome' = Return
  /\ cidUses' = cidUses \cup {<< "init", -1 >>}   \* vrep.simxFinish(-1)
  /\ UNCHANGED <<scene, nextHandle, simLog, staleRemove, pc, pending,
                 signal, sentBytes, replyBuf, simReply, lastRead, polled, reply,
                 nWritten, nReturned, writesThisCall, nOps>>

\* a method can be called: the object exists and no call is in progress
CanCall == obj = "live" /\ pc = "idle" /\ nOps < MaxOps

\* ------------------------------------------------------------ sendSignal
\* mutant: the result code is not looked at
ReplyReady_anyResult(result, string) == Len(string) > 0

\* mutant: the length of the string is not looked at
ReplyReady_anyString(result, string) == result = simx_return_ok

\* the condition under which __waitForCmdReply returns the string it read
ReplyReady(result, string) == result = simx_return_ok /\ Len(string) > 0

\* sendSignal up to its entry into __waitForCmdReply
sendSignal(op, uid, params) ==
  /\ signal' = simxPackInts(params)
  /\ sentBytes' = simxPackInts(params)
  /\ nWritten' = nWritten + 1
  /\ writesThisCall' = 1
  /\ cidUses' = cidUses \cup {<< "signal", clientID >>}
  /\ pending' = [op |-> op, uid |-> uid, args |-> params]
  /\ pc' = "wait"
  /\ polled' = FALSE
  /\ lastRead' = NoRead
  /\ reply' = << >>
  /\ outcome' = NoOutcome
  /\ simReply' = NoReply
  /\ logLevel' = "debug"
  /\ nOps' = nOps + 1
  /\ simLog' = << >>
  /\ UNCHANGED <<bridgeVars, clonedRobotHandles, scene, nextHandle, staleRemove,
                 replyBuf, nReturned>>

\* the request arrays, built as the code builds them: [-1] * n, then the slots
getStateRequest(uid) ==
  [[i \in 1 .. 2 |-> -1] EXCEPT ![IndexSignalSend_type + 1] = SignalType_getState,
                                ![IndexSignalSend_uid + 1] = uid]

getKnownRobotIdsRequest(uid) ==
  [[i \in 1 .. 2 |-> -1] EXCEPT ![IndexSignalSend_type + 1] = SignalType_getKnownRobotIds,
                                ![IndexSignalSend_uid + 1] = uid]

\* mutant: the led_b slot is never filled
setStateRequest_noLedB(uid, motion, light) ==
  [[i \in 1 .. 6 |-> -1] EXCEPT ![IndexSignalSend_type + 1] = SignalType_setState,
                                ![IndexSignalSend_uid + 1] = uid,
                                ![IndexSignalSend_motion + 1] = motion,
                                ![IndexSignalSend_led_r + 1] = light[1],
                                ![IndexSignalSend_led_g + 1] = light[2]]

setStateRequest(uid, motion, light) ==
  [[i \in 1 .. 6 |-> -1] EXCEPT ![IndexSignalSend_type + 1] = SignalType_setState,
                                ![IndexSignalSend_uid + 1] = uid,
                                ![IndexSignalSend_motion + 1] = motion,
                                ![IndexSignalSend_led_r + 1] = light[1],
                                ![IndexSignalSend_led_g + 1] = light[2],
                                ![IndexSignalSend_led_b + 1] = light[3]]

getStateCall(uid) ==
  /\ CanCall
  /\ sendSignal("getState", uid, getStateRequest(uid))

getKnownRobotIdsCall(uid) ==
  /\ CanCall
  /\ sendSignal("getKnownRobotIds", uid, getKnownRobotIdsRequest(uid))

setStateCall(uid, motion, light) ==
  /\ CanCall
  /\ sendSignal("setState", uid, setStateRequest(uid, motion, light))

\* --------------------------------------------- the callers' use of the reply
\* {recv[1][i]: recv[2][i] for i in range(len(recv[1]))}: a later index wins
DictOf(keys, vals) ==
  [k \in Range(keys) |->
     vals[CHOOSE i \in 1 .. Len(keys) :
            keys[i] = k /\ \A j \in (i + 1) .. Len(keys) : keys[j] # k]]

\* del d[key]
DictDel(d, key) == [k \in (DOMAIN d) \ {key} |-> d[k]]

\* list.remove(x): drops the first occurrence
ListRemove(list, x) ==
  LET k == CHOOSE i \in 1 .. Len(list) :
             list[i] = x /\ \A j \in 1 .. (i - 1) : list[j] # x
  IN SubSeq(list, 1, k - 1) \o SubSeq(list, k + 1, Len(list))

\* the one element of a singleton; {f(x) : x \in {e}} evaluates e once
Only(S) == CHOOSE x \in S : TRUE

\* getState from the uid check on, recv being the unpacked segments
getStateCheck(uid, recv) ==
  IF Len(recv[1]) < IndexSignalReceive_uid + 1 THEN Raise("IndexError")
  ELSE IF recv[1][IndexSignalReceive_uid + 1] # uid THEN Exit(1)
  ELSE IF Len(recv) < 2 THEN Raise("IndexError")
  ELSE IF Len(recv[2]) > 0 /\ (Len(recv) < 3 \/ Len(recv[3]) < Len(recv[2]))
       THEN Raise("IndexError")
  ELSE IF uid \notin Range(recv[2]) THEN Raise("KeyError")
  ELSE IF Len(recv[1]) < IndexSignalReceive_ambient_light + 1 THEN Raise("IndexError")
  ELSE ReturnState([uid |-> recv[1][IndexSignalReceive_uid + 1],
               light |-> recv[1][IndexSignalReceive_ambient_light + 1],
               distances |-> DictDel(DictOf(recv[2], recv[3]), uid)])

\* recv = recv.split(b'|'), then every segment unpacked in place
UnpackAll(parts) == [i \in 1 .. Len(parts) |-> simxUnpackInts(parts[i])]

\* getState after sendSignal has returned string
getStateFinish(uid, string) ==
  Only({getStateCheck(uid, recv) : recv \in {UnpackAll(Only({Split(string)}))}})

\* getKnownRobotIds from the conversion of the sender's id on, recv being the
\* segments of the reply
getKnownRobotIdsCheck(uid, recv) ==
  IF ~IsDigits(recv[IndexSignalReceive_uid + 1]) THEN Raise("ValueError")
  ELSE IF Len(recv) < 2 THEN Raise("IndexError")
  ELSE IF ParseInt(recv[IndexSignalReceive_uid + 1]) # uid THEN Exit(1)
  ELSE IF uid \notin Range(simxUnpackInts(recv[2])) THEN Raise("ValueError")
  ELSE ReturnIds(ListRemove(simxUnpackInts(recv[2]), uid))

\* getKnownRobotIds after sendSignal has returned string
getKnownRobotIdsFinish(uid, string) ==
  Only({getKnownRobotIdsCheck(uid, recv) : recv \in {Split(string)}})

\* setState after sendSignal has returned string
\* the unpacked reply is logged and dropped
setStateFinish(uid, string) == Return

Finish(string) ==
  IF pending.op = "getState" THEN getStateFinish(pending.uid, string)
  ELSE IF pending.op = "getKnownRobotIds" THEN getKnownRobotIdsFinish(pending.uid, string)
  ELSE setStateFinish(pending.uid, string)

\* ------------------------------------------------------ __waitForCmdReply
\* One iteration of the loop: a read of 'reply_signal' with the result code
\* and string the remote API hands back.  A read that delivers the stream's
\* content clears the stream.  When the loop returns, the caller runs on to
\* its own return, exit or exception.
waitForCmdReply(result, string) ==
  /\ pc = "wait"
  /\ string \in {<< >>, replyBuf}
  /\ result = simx_return_ok => string = replyBuf
  /\ lastRead' = [result |-> result, string |-> string]
  /\ polled' = (polled \/ ~ReplyReady(result, string))
  /\ replyBuf' = IF result = simx_return_ok THEN << >> ELSE replyBuf
  /\ IF ReplyReady(result, string)
     THEN /\ reply' = string
          /\ nReturned' = nReturned + 1
          /\ \E out \in {Finish(string)} :
               /\ outcome' = out
               /\ pc' = IF out.kind = "exit" THEN "exited" ELSE "idle"
               /\ logLevel' = IF out.kind = "exit" THEN "critical" ELSE "debug"
          /\ writesThisCall' = 0
     ELSE UNCHANGED <<reply, nReturned, outcome, pc, logLevel, writesThisCall>>
  /\ UNCHANGED <<bridgeVars, cloneVars, cidUses, pending, signal, sentBytes,
                 simReply, nWritten, nOps>>

\* the read that delivers the reply the simulator published
ReadReply == replyBuf # << >> /\ waitForCmdReply(simx_return_ok, replyBuf)

\* any other read: a failing one, or one that finds the stream empty
Poll == \E result \in ReadResults, string \in {<< >>, replyBuf} :
          /\ ~(result = simx_return_ok /\ replyBuf # << >>)
          /\ waitForCmdReply(result, string)

\* ------------------------------------------------------------ the simulator
\* lists of distinct robot ids
KeySeqs ==
  UNION {{s \in [1 .. n -> Uids] : \A i, j \in 1 .. n : i # j => s[i] # s[j]}
         : n \in 0 .. Cardinality(Uids)}

\* lists of n distinct distance readings
ValSeqs(n) == {[i \in 1 .. n |-> b + i] : b \in DistBases}

\* [uid, ambient_light] | distance_keys | distance_values
getStateReply(r) ==
  simxPackInts(<< r.uid, r.light >>) \o << Delim >> \o simxPackInts(r.keys)
    \o << Delim >> \o simxPackInts(r.vals)

\* uid | distance_keys | distance_values
getKnownRobotIdsReply(r) ==
  AsciiDec(r.uid) \o << Delim >> \o simxPackInts(r.keys)
    \o << Delim >> \o simxPackInts(r.vals)

setStateReply(r) == simxPackInts(<< r.uid >>)

\* what the simulator may answer to a request of the given type: a state
\* reply from any robot, a known-ids reply, or the reply to a setState
Replies(type) ==
  {r \in [uid : Uids, light : Lights, keys : KeySeqs,
          vals : UNION {ValSeqs(n) : n \in 0 .. Cardinality(Uids)}] :
     /\ Len(r.vals) = Len(r.keys)
     /\ type # SignalType_getState => \A i \in 1 .. Len(r.vals) : r.vals[i] < 100
     /\ type \notin {SignalType_getState, SignalType_getKnownRobotIds} =>
          r.keys = << >>}

EncodeReply(type, r) ==
  IF type = SignalType_getState THEN getStateReply(r)
  ELSE IF type = SignalType_getKnownRobotIds THEN getKnownRobotIdsReply(r)
  ELSE setStateReply(r)

\* The simulator takes the request off 'signal' and publishes its reply on
\* 'reply_signal'; the reply may come from any robot.
SimPublish ==
  /\ pc = "wait"
  /\ signal # << >>
  /\ replyBuf = << >>
  /\ simReply' \in Replies(simxUnpackInts(signal)[IndexSignalSend_type + 1])
  /\ replyBuf' = EncodeReply(simxUnpackInts(signal)[IndexSignalSend_type + 1], simReply')
  /\ signal' = << >>
  /\ UNCHANGED <<bridgeVars, cloneVars, cidUses, pc, pending, sentBytes, lastRead,
                 polled, reply, outcome, logLevel, nWritten, nReturned,
                 writesThisCall, nOps>>

\* ------------------------------------------------------------ spawnRobots
\* the latest call wrote no request and read no reply
NoSignalCall ==
  /\ sentBytes' = << >>
  /\ simReply' = NoReply
  /\ lastRead' = NoRead
  /\ polled' = FALSE
  /\ reply' = << >>

\* a remote API call: on which object, relative to which, with what position
\* or rotation
NoPos == [vec |-> << >>, angle |-> << >>, z |-> 0]
NoRot == << >>
SimCall(call, handle, rel, pos, rot) ==
  [call |-> call, cid |-> clientID, handle |-> handle, rel |-> rel,
   pos |-> pos, rot |-> rot]

\* mutant: the clone is rotated before it is moved
SpawnIter_orientFirst(i, nr, spawnType, sourceHandle, h) ==
  << SimCall("simxCopyPasteObjects", sourceHandle, 0, NoPos, NoRot),
     SimCall("simxSetObjectOrientation", h, h,
             NoPos, getClonePosRot(i, nr, spawnType)[2]),
     SimCall("simxSetObjectPosition", h, sourceHandle,
             getClonePosRot(i, nr, spawnType)[1], NoRot) >>

\* one iteration of the loop, for the clone the simulator gave handle h
SpawnIter(i, nr, spawnType, sourceHandle, h) ==
  << SimCall("simxCopyPasteObjects", sourceHandle, 0, NoPos, NoRot),
     SimCall("simxSetObjectPosition", h, sourceHandle,
             getClonePosRot(i, nr, spawnType)[1], NoRot),
     SimCall("simxSetObjectOrientation", h, h,
             NoPos, getClonePosRot(i, nr, spawnType)[2]) >>

\* iterations i .. done-1 of the loop; clone j gets handle first + j
RECURSIVE SpawnLoop(_, _, _, _, _, _)
SpawnLoop(i, done, nr, spawnType, sourceHandle, first) ==
  IF i >= done THEN << >>
  ELSE SpawnIter(i, nr, spawnType, sourceHandle, first + i)
         \o SpawnLoop(i + 1, done, nr, spawnType, sourceHandle, first)

\* the handles appended by iterations 0 .. done-1
SpawnedHandles(done, first) == [j \in 1 .. done |-> first + j - 1]

\* spawnRobots(sourceRobotName, nr, spawnType).  The simulator pastes `done`
\* clones; when done < nr the next copy-paste hands back no handle and
\* auxhandles[0] raises IndexError.
spawnRobots(sourceHandle, nr, spawnType, done) ==
  /\ CanCall
  /\ done \in 0 .. nr
  /\ simLog' = << SimCall("simxGetObjectHandle", sourceHandle, 0, NoPos, NoRot) >>
                 \o SpawnLoop(0, done, nr, spawnType, sourceHandle, nextHandle)
                 \o (IF done < nr
                     THEN << SimCall("simxCopyPasteObjects", sourceHandle, 0, NoPos, NoRot) >>
                     ELSE << >>)
  /\ clonedRobotHandles' = clonedRobotHandles \o SpawnedHandles(done, nextHandle)
  /\ scene' = scene \cup Range(SpawnedHandles(done, nextHandle))
  /\ nextHandle' = nextHandle + done
  /\ outcome' = IF done < nr THEN Raise("IndexError") ELSE Return
  /\ pending' = [op |-> "spawnRobots", uid |-> -1,
                  args |-> << sourceHandle, nr, spawnType >>]
  /\ cidUses' = cidUses \cup {<< "spawn", clientID >>}
  /\ logLevel' = IF nr > 0 THEN "debug" ELSE "info"
  /\ nOps' = nOps + 1
  /\ NoSignalCall
  /\ UNCHANGED <<bridgeVars, staleRemove, pc, signal, replyBuf, nWritten, nReturned,
                 writesThisCall>>

\* ----------------------------------------------------------- removeRobots
\* mutant: the loop stops one handle short
RemoveLoop_skipLast(handles) ==
  [j \in 1 .. (Len(handles) - 1) |->
     [call |-> "simxRemoveModel", cid |-> clientID, handle |-> handles[j],
      rel |-> 0, pos |-> [vec |-> << >>, angle |-> << >>, z |-> 0], rot |-> << >>]]

\* the simxRemoveModel calls of the loop over self.clonedRobotHandles
RemoveLoop(handles) ==
  [j \in 1 .. Len(handles) |-> SimCall("simxRemoveModel", handles[j], 0, NoPos, NoRot)]

removeRobots ==
  /\ CanCall
  /\ IF Len(clonedRobotHandles) <= 0
     THEN /\ simLog' = << >>
          /\ UNCHANGED <<scene, staleRemove, cidUses, logLevel>>
     ELSE /\ simLog' = RemoveLoop(clonedRobotHandles)
          /\ scene' = scene \ Range(clonedRobotHandles)
          /\ staleRemove' = (staleRemove \/ \E h \in Range(clonedRobotHandles) : h \notin scene)
          /\ cidUses' = cidUses \cup {<< "remove", clientID >>}
          /\ logLevel' = "info"
  /\ outcome' = Return
  /\ pending' = [op |-> "removeRobots", uid |-> -1, args |-> << >>]
  /\ nOps' = nOps + 1
  /\ NoSignalCall
  /\ UNCHANGED <<bridgeVars, clonedRobotHandles, nextHandle, pc, signal, replyBuf,
                 nWritten, nReturned, writesThisCall>>

\* ------------------------------------------------------------------ close
close ==
  /\ obj = "live"
  /\ pc = "idle"
  /\ obj' = "closed"
  /\ cidUses' = cidUses \cup {<< "close", clientID >>}
  /\ logLevel' = "info"
  /\ outcome' = Return
  /\ pending' = [op |-> "close", uid |-> -1, args |-> << >>]
  /\ simLog' = << >>
  /\ NoSignalCall
  /\ UNCHANGED <<clientID, clonedRobotHandles, scene, nextHandle, staleRemove, pc,
                 signal, replyBuf, nWritten, nReturned, writesThisCall, nOps>>

\* ---------------------------------------------------------- specification
Init ==
  /\ obj = "none"
  /\ clientID = -1
  /\ clonedRobotHandles = << >>
  /\ scene = {}
  /\ nextHandle = FirstCloneHandle
  /\ simLog = << >>
  /\ cidUses = {}
  /\ staleRemove = FALSE
  /\ pc = "idle"
  /\ pending = NoCall
  /\ signal = << >>
  /\ sentBytes = << >>
  /\ replyBuf = << >>
  /\ simReply = NoReply
  /\ lastRead = NoRead
  /\ polled = FALSE
  /\ reply = << >>
  /\ outcome = NoOutcome
  /\ logLevel = "none"
  /\ nWritten = 0
  /\ nReturned = 0
  /\ writesThisCall = 0
  /\ nOps = 0

Next ==
  \/ \E cid \in ClientIds : Construct(cid)
  \/ \E uid \in ReqUids : getStateCall(uid)
  \/ \E uid \in ReqUids : getKnownRobotIdsCall(uid)
  \/ \E uid \in ReqUids, motion \in Motions, light \in Led_rgb : setStateCall(uid, motion, light)
  \/ ReadReply
  \/ Poll
  \/ SimPublish
  \/ \E sourceHandle \in SourceHandles, nr \in 0 .. MaxNr, spawnType \in SpawnTypes,
        done \in 0 .. MaxNr : spawnRobots(sourceHandle, nr, spawnType, done)
  \/ removeRobots
  \/ close

Spec == Init /\ [][Next]_vars

\* A read of 'reply_signal' that delivers the published reply.  Every step of
\* Spec that satisfies it is a ReadReply step, and it is enabled exactly when
\* ReadReply is: the call is waiting and a reply has been published.
DeliverReply ==
  /\ pc = "wait"
  /\ replyBuf # << >>
  /\ lastRead' = [result |-> simx_return_ok, string |-> replyBuf]
  /\ replyBuf' = << >>

\* The simulator answers every request and a read of a published reply
\* eventually succeeds: the hypotheses under which a call is said to return.
FairSpec ==
  Spec /\ WF_vars(SimPublish) /\ WF_<<replyBuf, lastRead>>(DeliverReply)

\* ----------------------------------------------------------------- claims
SignalCallDone == pending.op \in SignalOps /\ pc # "wait"

\* C1: every value sendSignal returns is a non-empty string delivered by a read
\* of 'reply_signal' whose result code was ok; while the call is still waiting
\* nothing has been returned.
C1_ReturnedReplyIsOkNonEmpty ==
  /\ SignalCallDone =>
       /\ Len(reply) > 0
       /\ lastRead.result = simx_return_ok
       /\ lastRead.string = reply
  /\ pc = "wait" => reply = << >>

C1_Witness ==
  /\ pending.op = "setState" /\ pc = "idle" /\ outcome.kind = "return"
  /\ Len(reply) > 0

\* C2: getState(uid) returns a dictionary only when the uid of the reply equals
\* the requested uid, and then the dictionary's uid is the requested one; when
\* the reply's uid differs a critical message is logged and the process exits
\* with status 1.
C2_WrongRobotExits ==
  (pending.op = "getState" /\ pc # "wait") =>
    /\ outcome.kind = "return" =>
         simReply.uid = pending.uid /\ outcome.state.uid = pending.uid
    /\ simReply.uid # pending.uid =>
         outcome.kind = "exit" /\ outcome.status = 1 /\ logLevel = "critical"

\* C3: for a reply [uid, ambient_light] | distance_keys | distance_values the
\* distances returned by getState(uid) map every id of distance_keys other than
\* uid to the value at the same index, never hold uid, and light is
\* ambient_light.
C3_DistancesMatchReply ==
  (pending.op = "getState" /\ pc # "wait" /\ outcome.kind = "return") =>
    /\ DOMAIN outcome.state.distances = Range(simReply.keys) \ {pending.uid}
    /\ \A i \in 1 .. Len(simReply.keys) :
         simReply.keys[i] # pending.uid =>
           outcome.state.distances[simReply.keys[i]] = simReply.vals[i]
    /\ outcome.state.light = simReply.light

\* the list with every occurrence of x left out
Without(list, x) == SelectSeq(list, LAMBDA e : e # x)

\* C4: getKnownRobotIds(uid) returns the ids of the reply's second segment with
\* uid removed, so uid is not in the returned list; when the reply's sender id
\* differs from uid the process exits with status 1.
C4_KnownIdsMatchReply ==
  (pending.op = "getKnownRobotIds" /\ pc # "wait") =>
    /\ outcome.kind = "return" =>
         /\ outcome.ids = Without(simReply.keys, pending.uid)
         /\ pending.uid \notin Range(outcome.ids)
    /\ simReply.uid # pending.uid => outcome.kind = "exit" /\ outcome.status = 1

\* the handles every spawnRobots call so far has appended
AllSpawned == FirstCloneHandle .. (nextHandle - 1)

\* C5: when removeRobots returns, a remove-model call has been issued for every
\* handle appended by the earlier spawnRobots calls; when no clone was ever
\* spawned it issues no simulator call at all.
C5_RemoveCoversAllSpawned ==
  pending.op = "removeRobots" =>
    /\ \A h \in AllSpawned :
         \E j \in 1 .. Len(simLog) :
           simLog[j].call = "simxRemoveModel" /\ simLog[j].handle = h
    /\ AllSpawned = {} => simLog = << >>

C5_Witness ==
  /\ pending.op = "removeRobots"
  /\ Cardinality(AllSpawned) >= 2
  /\ Len(simLog) >= 2

\* a spawnRobots call that ran to its end
SpawnReturns ==
  /\ nOps' = nOps + 1
  /\ pending'.op = "spawnRobots"
  /\ outcome'.kind = "return"

C7_WaitLeftOnlyByReply ==
  /\ (pc = "wait") ~> (pc # "wait")
  /\ [][(pc = "wait" /\ pc' # "wait") =>
          /\ lastRead'.result = simx_return_ok
          /\ lastRead'.string # << >>
          /\ reply' = lastRead'.string
          /\ nReturned' = nReturned + 1
       ]_vars

\* a call that returned its reply after at least one read that delivered none
C7_Witness ==
  /\ pending.op \in SignalOps /\ pc = "idle" /\ outcome.kind = "return"
  /\ polled
  /\ lastRead.result = simx_return_ok /\ lastRead.string = reply

\* C8: when simxStart returns -1 the constructor logs an error and raises, so
\* no bridge object has client id -1 and no signal, spawn, remove or close call
\* is issued with client id -1.
C8_NoBridgeWithoutConnection ==
  /\ obj \in {"live", "closed"} => clientID # -1
  /\ obj = "failed" => clientID = -1 /\ logLevel = "error" /\ outcome.kind = "raise"
  /\ \A u \in cidUses : u[1] \in {"signal", "spawn", "remove", "close"} => u[2] # -1

C8_Witness == obj = "failed" /\ clientID = -1 /\ cidUses = {<< "init", -1 >>}

\* C9: after any sequence of spawnRobots and removeRobots calls
\* clonedRobotHandles holds exactly the handles of the clones still in the
\* scene, so remove-model is never issued for a handle already removed.
C9_HandlesAreSceneClones ==
  /\ obj = "live" => Range(clonedRobotHandles) = scene
  /\ ~staleRemove

\* the request the latest signal call wrote, as the simulator unpacks it
SentRequest == simxUnpackInts(sentBytes)

\* C10: every getState, getKnownRobotIds or setState call writes exactly one
\* request before its first read and never rewrites it while polling; the
\* request has the type at index 0 and the uid at index 1, length 2 for the get
\* requests and 6 for setState, with no -1 left in it; requests written and
\* replies returned alternate, with at most one request outstanding.
C10_OneRequestPerCall ==
  /\ [](/\ nWritten - nReturned = (IF pc = "wait" THEN 1 ELSE 0)
        /\ writesThisCall = (IF pc = "wait" THEN 1 ELSE 0)
        /\ pending.op \in SignalOps =>
             /\ SentRequest = pending.args
             /\ SentRequest[IndexSignalSend_uid + 1] = pending.uid
             /\ \A i \in 1 .. Len(SentRequest) : SentRequest[i] # -1
             /\ pending.op = "getState" =>
                  /\ Len(SentRequest) = 2
                  /\ SentRequest[IndexSignalSend_type + 1] = 1
             /\ pending.op = "getKnownRobotIds" =>
                  /\ Len(SentRequest) = 2
                  /\ SentRequest[IndexSignalSend_type + 1] = 3
             /\ pending.op = "setState" =>
                  /\ Len(SentRequest) = 6
                  /\ SentRequest[IndexSignalSend_type + 1] = 2
                  /\ SentRequest[IndexSignalSend_motion + 1] \in Motions
                  /\ << SentRequest[IndexSignalSend_led_r + 1],
                        SentRequest[IndexSignalSend_led_g + 1],
                        SentRequest[IndexSignalSend_led_b + 1] >> \in Led_rgb)
  /\ [][/\ lastRead' # lastRead =>
             \/ (pc = "wait" /\ writesThisCall = 1 /\ nWritten' = nWritten
                   /\ sentBytes' = sentBytes)
             \/ (pc = "idle" /\ lastRead' = NoRead)
        /\ nWritten' # nWritten =>
             (pc = "idle" /\ pc' = "wait" /\ nWritten' = nWritten + 1 /\ ~polled')
        /\ nReturned' # nReturned =>
             (pc = "wait" /\ pc' # "wait" /\ nReturned' = nReturned + 1)
       ]_vars

C10_Witness ==
  /\ nWritten = 2 /\ nReturned = 2
  /\ pending.op = "setState" /\ outcome.kind = "return"

====
